---- MODULE Spec2Model ----
(***************************************************************************)
(* Model of the Postgres data source (src/postgres/source.py): the         *)
(* incremental table-extraction engine Postgres.read with its retry        *)
(* wrapper, get_tables, the query builder get_query, connect and          *)
(* key_strategy.                                                           *)
(*                                                                         *)
(* Texts (SQL statements, names, error messages) are TLA+ strings, built   *)
(* with \o as the code builds them with str.format.  Python values that    *)
(* are formatted into a statement are tagged records (PyInt, PyStr,        *)
(* PyNone) so that formatting and truthiness are computed as Python        *)
(* computes them.  self.index is 0-based as in the code.                   *)
(***************************************************************************)
EXTENDS Integers, Sequences, FiniteSets, TLC

(***************************************************************************)
(* Program constants                                                       *)
(***************************************************************************)
BATCH_SIZE == 5000
MAX_RETRIES == 5

(***************************************************************************)
(* Bounds of the model                                                     *)
(***************************************************************************)
SmallBatch == 2       \* the configured batch size that is not the default
PersistedRow == 2     \* the row (by position) a persisted checkpoint stems from
MaxFaultyCalls == 1   \* read() calls in which some attempt fails
MaxDone == 2          \* read() calls made after the last table is exhausted
MaxKeys == 2          \* columns of a key and of a resume state given to get_query
MaxListings == 1      \* calls of get_tables in a run
MaxCandidates == 3    \* key descriptors in an argument of key_strategy

(***************************************************************************)
(* Python values and strings                                               *)
(***************************************************************************)
PyInt(n) == [t |-> "int", v |-> n]
PyStr(s) == [t |-> "str", v |-> s]
PyNone == [t |-> "none", v |-> FALSE]

\* "{}".format(x)
Format(x) ==
  CASE x.t = "int" -> ToString(x.v)
    [] x.t = "str" -> x.v
    [] OTHER -> "None"

\* bool(x): None, 0 and '' are false
Truthy(x) ==
  CASE x.t = "int" -> x.v # 0
    [] x.t = "str" -> x.v # ""
    [] OTHER -> FALSE

\* sub in s
Contains(s, sub) ==
  \E i \in 1..(Len(s) - Len(sub) + 1) : SubSeq(s, i, i + Len(sub) - 1) = sub

\* s.find(sub, i - 1) + 1: the first position of sub in s from i on, 0 when
\* absent
RECURSIVE Find(_, _, _)
Find(s, sub, i) ==
  IF i + Len(sub) - 1 > Len(s) THEN 0
  ELSE IF SubSeq(s, i, i + Len(sub) - 1) = sub THEN i
  ELSE Find(s, sub, i + 1)

IndexOf(s, sub) == Find(s, sub, 1)

\* s.split(sep, 1) of a text that holds sep
Halves(s, sep, i) == <<SubSeq(s, 1, i - 1), SubSeq(s, i + Len(sep), Len(s))>>

SplitFirst(s, sep) == Halves(s, sep, IndexOf(s, sep))

\* s.rsplit(sep, 1) of a text that holds sep
RECURSIVE LastIndexOf(_, _, _)
LastIndexOf(s, sep, i) ==
  IF i < 1 THEN 0
  ELSE IF SubSeq(s, i, i + Len(sep) - 1) = sep THEN i
  ELSE LastIndexOf(s, sep, i - 1)

SplitLast(s, sep) == Halves(s, sep, LastIndexOf(s, sep, Len(s) - Len(sep) + 1))

\* sep.join(parts)
RECURSIVE Join(_, _)
Join(parts, sep) ==
  IF parts = <<>> THEN ""
  ELSE IF Len(parts) = 1 THEN parts[1]
  ELSE parts[1] \o sep \o Join(Tail(parts), sep)

InSeq(x, s) == \E i \in 1..Len(s) : s[i] = x

(***************************************************************************)
(* get_query: the SELECT statement of a table scan.  keys is a sequence of *)
(* key descriptors (records with attname), state the resume state as the   *)
(* ordered sequence of <<column, value>> pairs of the OrderedDict (<<>>    *)
(* for None and for {}), inckey a column name ('' when unset), incval and  *)
(* max_value Python values.                                                *)
(***************************************************************************)
\* QueryOrderBy with the defect of ordering by nothing
QueryUnordered(inckey, keys) == ""

QueryOrderBy(inckey, keys) ==
  IF keys # <<>>
  THEN LET names == [i \in 1..Len(keys) |-> keys[i].attname]
           cols == IF inckey # "" /\ ~InSeq(inckey, names)
                   THEN Append(names, inckey)
                   ELSE names
       IN " ORDER BY " \o Join(cols, ",")
  ELSE ""

\* Quote with the defect of leaving the quotes out
Unquoted(x) == Format(x)

\* "'{}'".format(x)
Quote(x) == "'" \o Format(x) \o "'"

\* QueryResume with the defect of comparing with > instead of >=
QueryResumeStrict(state) ==
  IF state # <<>>
  THEN LET cols == Join([i \in 1..Len(state) |-> state[i][1]], ",")
           vals == Join([i \in 1..Len(state) |-> Quote(state[i][2])], ",")
       IN IF Len(state) > 1
          THEN "(" \o cols \o ") > (" \o vals \o ")"
          ELSE cols \o " > " \o vals
  ELSE ""

QueryResume(state) ==
  IF state # <<>>
  THEN LET cols == Join([i \in 1..Len(state) |-> state[i][1]], ",")
           vals == Join([i \in 1..Len(state) |-> Quote(state[i][2])], ",")
       IN IF Len(state) > 1
          THEN "(" \o cols \o ") >= (" \o vals \o ")"
          ELSE cols \o " >= " \o vals
  ELSE ""

QueryIncremental(inckey, incval, max_value) ==
  LET inc_clause == inckey \o " >= '" \o Format(incval) \o "'"
  IN IF Truthy(max_value)
     THEN "(" \o inc_clause \o " AND " \o inckey \o " <= "
              \o Format(max_value) \o ")"
     ELSE inc_clause

QueryWhere(inckey, incval, max_value, state) ==
  LET resume == QueryResume(state)
      where == IF (inckey # "" /\ Truthy(incval)) /\ ~Contains(resume, inckey)
               THEN (IF resume # "" THEN resume \o " AND " ELSE "")
                      \o QueryIncremental(inckey, incval, max_value)
               ELSE resume
  IN IF where # "" THEN " WHERE " \o where ELSE ""

get_query(schema, table, inckey, incval, keys, max_value, state) ==
  "SELECT * FROM \"" \o schema \o "\".\"" \o table \o "\""
     \o QueryWhere(inckey, incval, max_value, state)
     \o QueryOrderBy(inckey, keys)

(***************************************************************************)
(* key_strategy: the first strategy of KEY_STRATEGY that selects something *)
(* decides; when none does, the keys are returned as they are.  The        *)
(* strategies themselves are the policy of the key strategy selector:      *)
(* primary key, unique index, smallest index; which unique index is taken  *)
(* follows test_query_with_unique_keys of src/test.py.                     *)
(***************************************************************************)
OfIndex(keys, relid) == SelectSeq(keys, LAMBDA k : k.indexrelid = relid)

\* the index owning the first descriptor among those of the indexes in rel
\* that have the fewest columns
SmallestIndex(keys, rel) ==
  LET least == CHOOSE n \in {keys[i].indnatts : i \in {j \in 1..Len(keys) : keys[j].indexrelid \in rel}} :
                 \A i \in 1..Len(keys) :
                    keys[i].indexrelid \in rel => n <= keys[i].indnatts
      first == CHOOSE i \in 1..Len(keys) :
                 /\ keys[i].indexrelid \in rel /\ keys[i].indnatts = least
                 /\ \A j \in 1..(i - 1) :
                      ~(keys[j].indexrelid \in rel /\ keys[j].indnatts = least)
  IN OfIndex(keys, keys[first].indexrelid)

primary_key_strategy(keys) == SelectSeq(keys, LAMBDA k : k.indisprimary)

\* the index owning the first descriptor among those of the indexes in rel
FirstIndex(keys, rel) ==
  LET first == CHOOSE i \in 1..Len(keys) :
                 /\ keys[i].indexrelid \in rel
                 /\ \A j \in 1..(i - 1) : keys[j].indexrelid \notin rel
  IN OfIndex(keys, keys[first].indexrelid)

\* the unique index strategy as test_query_with_unique_keys shows it: of
\* the unique index idx12 on (idx1, idx2), listed first, and the unique
\* index idx3123 on (idx3), key_strategy returns idx1, idx2
unique_index_strategy(keys) ==
  LET rest == SelectSeq(keys, LAMBDA k : ~k.indisprimary /\ k.indexrelid # "")
      rel == {r \in {rest[i].indexrelid : i \in 1..Len(rest)} :
                \A i \in 1..Len(rest) :
                   rest[i].indexrelid = r => rest[i].indisunique}
  IN IF rel = {} THEN <<>> ELSE FirstIndex(rest, rel)

index_strategy(keys) ==
  LET rest == SelectSeq(keys, LAMBDA k : ~k.indisprimary /\ k.indexrelid # "")
      rel == {rest[i].indexrelid : i \in 1..Len(rest)}
  IN IF rel = {} THEN <<>> ELSE SmallestIndex(rest, rel)

\* key_strategy with the defect of asking the unique indexes first
key_strategy_unique_first(keys) ==
  IF unique_index_strategy(keys) # <<>> THEN unique_index_strategy(keys)
  ELSE IF primary_key_strategy(keys) # <<>> THEN primary_key_strategy(keys)
  ELSE keys

key_strategy(keys) ==
  IF primary_key_strategy(keys) # <<>> THEN primary_key_strategy(keys)
  ELSE IF unique_index_strategy(keys) # <<>> THEN unique_index_strategy(keys)
  ELSE IF index_strategy(keys) # <<>> THEN index_strategy(keys)
  ELSE keys

(***************************************************************************)
(* The database the source reads: a catalog of tables with their index     *)
(* descriptors (the rows SQL_GET_KEYS returns), their columns (the rows    *)
(* SQL_GET_COLUMNS returns) and their rows in physical order.  Column      *)
(* values are integers and never NULL.                                     *)
(***************************************************************************)
Key(att, natts, unique, primary, relid) ==
  [attname |-> att, indnatts |-> natts, indisunique |-> unique,
   indisprimary |-> primary, indexrelid |-> relid]

\* a row of SQL_GET_COLUMNS: a column that belongs to no index
Column(att) == Key(att, 0, FALSE, FALSE, "")

Catalog == <<"public.users", "sales.orders", "log.ev.x", "public.blank">>

DbKeys(value) ==
  CASE value = "public.users" ->
         <<Key("id", 1, TRUE, TRUE, "users_pkey")>>
    [] value = "sales.orders" ->
         <<Key("a", 2, TRUE, TRUE, "orders_pkey"),
           Key("b", 2, TRUE, TRUE, "orders_pkey"),
           Key("b", 1, TRUE, FALSE, "orders_b")>>
    [] OTHER -> <<>>

DbColumns(value) ==
  CASE value = "public.users" -> <<"id", "ts">>
    [] value = "sales.orders" -> <<"a", "b", "ts">>
    [] value = "log.ev.x" -> <<"c", "ts", "__tablename">>
    [] OTHER -> <<>>

Row2(c1, v1, c2, v2) == (c1 :> v1) @@ (c2 :> v2)
Row3(c1, v1, c2, v2, c3, v3) == (c1 :> v1) @@ (c2 :> v2) @@ (c3 :> v3)

DbRows(value) ==
  CASE value = "public.users" ->
         <<Row2("id", 2, "ts", 3), Row2("id", 1, "ts", 1),
           Row2("id", 3, "ts", 2)>>
    [] value = "sales.orders" ->
         <<Row3("a", 1, "b", 2, "ts", 2), Row3("a", 2, "b", 1, "ts", 3),
           Row3("a", 1, "b", 1, "ts", 0)>>
    [] value = "log.ev.x" ->
         <<Row3("c", 1, "ts", 2, "__tablename", 7),
           Row3("c", 2, "ts", 3, "__tablename", 8),
           Row3("c", 2, "ts", 1, "__tablename", 9)>>
    [] OTHER -> <<<<>>, <<>>>>

\* schema, table = value.split('.', 1)
SchemaOf(value) == SplitFirst(value, ".")[1]
TableOf(value) == SplitFirst(value, ".")[2]

\* the table a statement names as "schema"."table"
QuotedName(value) == "\"" \o SchemaOf(value) \o "\".\"" \o TableOf(value) \o "\""

(***************************************************************************)
(* The database evaluating a statement text, as PostgreSQL reads it:       *)
(* SELECT * FROM <name> [WHERE <condition>] [ORDER BY <columns>], where a  *)
(* condition is a conjunction of comparisons of a column with a literal    *)
(* (>=, <=, >), row comparisons (c1,...) >= (l1,...) or > and              *)
(* parenthesised conditions.                                               *)
(***************************************************************************)
RECURSIVE Split(_, _)
SplitAt(s, sep, i) ==
  IF i = 0 THEN <<s>>
  ELSE <<SubSeq(s, 1, i - 1)>> \o Split(SubSeq(s, i + Len(sep), Len(s)), sep)

Split(s, sep) == SplitAt(s, sep, IndexOf(s, sep))

SqlBody(q) == SubSeq(q, Len("SELECT * FROM ") + 1, Len(q))

\* the three parts of the text b that follows SELECT * FROM, with w and o
\* the positions of WHERE and of ORDER BY in it (0 when absent)
NamePart(b, w, o) ==
  IF w > 0 THEN SubSeq(b, 1, w - 1)
  ELSE IF o > 0 THEN SubSeq(b, 1, o - 1)
  ELSE b

ConditionPart(b, w, o) ==
  IF w = 0 THEN ""
  ELSE SubSeq(b, w + Len(" WHERE "), IF o > 0 THEN o - 1 ELSE Len(b))

OrderPart(b, o) ==
  IF o = 0 THEN <<>> ELSE Split(SubSeq(b, o + Len(" ORDER BY "), Len(b)), ",")

\* the integer a literal denotes: '12' or 12
RECURSIVE Digits(_)
Digits(s) ==
  LET d == CHOOSE n \in 0..9 : ToString(n) = SubSeq(s, Len(s), Len(s))
  IN IF Len(s) = 1 THEN d ELSE 10 * Digits(SubSeq(s, 1, Len(s) - 1)) + d

Literal(s) ==
  IF SubSeq(s, 1, 1) = "'" THEN Digits(SubSeq(s, 2, Len(s) - 1)) ELSE Digits(s)

Literals(lits) == [k \in 1..Len(lits) |-> Literal(lits[k])]

\* the position of the first " AND " of s outside parentheses, from p on
RECURSIVE TopAnd(_, _, _)
TopAnd(s, p, depth) ==
  IF p > Len(s) THEN 0
  ELSE IF SubSeq(s, p, p) = "(" THEN TopAnd(s, p + 1, depth + 1)
  ELSE IF SubSeq(s, p, p) = ")" THEN TopAnd(s, p + 1, depth - 1)
  ELSE IF depth = 0 /\ p + 4 <= Len(s) /\ SubSeq(s, p, p + 4) = " AND " THEN p
  ELSE TopAnd(s, p + 1, depth)

Comparison(op, cols, lits) == [op |-> op, cols |-> cols, lits |-> Literals(lits)]

\* the comparisons a condition is the conjunction of
RECURSIVE Comparisons(_)
Conjunction(cond, a) ==
  Comparisons(SubSeq(cond, 1, a - 1))
    \o Comparisons(SubSeq(cond, a + Len(" AND "), Len(cond)))

\* (c1,...) op (l1,...), the operator with its blanks at position i
RowComparison(cond, op, i) ==
  <<Comparison(op, Split(SubSeq(cond, 2, i - 1), ","),
               Split(SubSeq(cond, i + Len(op) + 4, Len(cond) - 1), ","))>>

\* c op l, the operator with its blanks at position i
ColumnComparison(cond, op, i) ==
  <<Comparison(op, <<SubSeq(cond, 1, i - 1)>>,
               <<SubSeq(cond, i + Len(op) + 2, Len(cond))>>)>>

Column3(cond, g, l, s) ==
  IF g > 0 THEN ColumnComparison(cond, ">=", g)
  ELSE IF l > 0 THEN ColumnComparison(cond, "<=", l)
  ELSE ColumnComparison(cond, ">", s)

Parenthesised(cond, g, s) ==
  IF g > 0 THEN RowComparison(cond, ">=", g)
  ELSE IF s > 0 THEN RowComparison(cond, ">", s)
  ELSE Comparisons(SubSeq(cond, 2, Len(cond) - 1))

Conjunct(cond, a) ==
  IF a > 0 THEN Conjunction(cond, a)
  ELSE IF SubSeq(cond, 1, 1) = "("
  THEN Parenthesised(cond, IndexOf(cond, ") >= ("), IndexOf(cond, ") > ("))
  ELSE Column3(cond, IndexOf(cond, " >= "), IndexOf(cond, " <= "),
               IndexOf(cond, " > "))

Comparisons(cond) ==
  IF cond = "" THEN <<>> ELSE Conjunct(cond, TopAnd(cond, 1, 0))

\* row comparison: <<x1, ...>> >= <<y1, ...>>
RECURSIVE TupleGeq(_, _)
TupleGeq(x, y) ==
  IF x = <<>> THEN TRUE
  ELSE IF x[1] # y[1] THEN x[1] > y[1]
  ELSE TupleGeq(Tail(x), Tail(y))

Values(cols, row) == [k \in 1..Len(cols) |-> row[cols[k]]]

Holds(cmp, row) ==
  CASE cmp.op = ">=" -> TupleGeq(Values(cmp.cols, row), cmp.lits)
    [] cmp.op = "<=" -> TupleGeq(cmp.lits, Values(cmp.cols, row))
    [] OTHER -> ~TupleGeq(cmp.lits, Values(cmp.cols, row))

\* the positions of rows in the order ORDER BY cols gives them; rows that
\* compare equal keep their physical order
Before(rows, cols, p, q) ==
  LET x == [k \in 1..Len(cols) |-> rows[p][cols[k]]]
      y == [k \in 1..Len(cols) |-> rows[q][cols[k]]]
  IN IF x = y THEN p < q ELSE TupleGeq(y, x)

RECURSIVE Sorted(_, _, _)
First(rows, cols, ps) ==
  CHOOSE x \in ps : \A y \in ps \ {x} : Before(rows, cols, x, y)

Rest(rows, cols, ps, p) == <<p>> \o Sorted(rows, cols, ps \ {p})

Sorted(rows, cols, ps) ==
  IF ps = {} THEN <<>> ELSE Rest(rows, cols, ps, First(rows, cols, ps))

\* the table a statement names
Named(name) ==
  CHOOSE v \in {Catalog[i] : i \in 1..Len(Catalog)} : QuotedName(v) = name

SelectRows(rows, cmps, cols) ==
  Sorted(rows, cols,
         {p \in 1..Len(rows) : \A i \in 1..Len(cmps) : Holds(cmps[i], rows[p])})

SelectParts(b, w, o) ==
  SelectRows(DbRows(Named(NamePart(b, w, o))),
             Comparisons(ConditionPart(b, w, o)), OrderPart(b, o))

SelectBody(b) == SelectParts(b, IndexOf(b, " WHERE "), IndexOf(b, " ORDER BY "))

\* the result set of a SELECT statement: the positions, in the table, of the
\* rows it returns, in the order it returns them
DbSelect(q) == SelectBody(SqlBody(q))

\* SELECT MAX("column") FROM "schema"."table"
DbMax(schema, table, column) ==
  LET value == CHOOSE v \in {Catalog[i] : i \in 1..Len(Catalog)} :
                  SchemaOf(v) = schema /\ TableOf(v) = table
      rows == DbRows(value)
  IN IF rows = <<>> THEN PyNone
     ELSE PyInt(CHOOSE m \in {rows[p][column] : p \in 1..Len(rows)} :
                  \A p \in 1..Len(rows) : rows[p][column] <= m)

(***************************************************************************)
(* State                                                                   *)
(***************************************************************************)
VARIABLES
  tables,        \* self.tables: the 'value' of each configured table
  batch_size,    \* self.batch_size
  inckey,        \* self.inckey ('' when unset)
  incval,        \* self.incval
  persisted,     \* source['state'] as the engine was constructed with it
  source_state,  \* self.source.get('state'): <<>> when the key is absent
  index,         \* self.index (0-based)
  conn,          \* self.conn: the session it refers to, 0 for None
  cursor,        \* self.cursor: the session of the cursor, 0 for None
  state_id,      \* self.state_id ("" for None)
  loaded,        \* self.loaded
  saved_state,   \* self.saved_state: <<>> for {}, else [last_index, last_value]
  current_keys,  \* self.current_keys: <<>> for None and for []
  db_opened,     \* database: number of sessions opened so far
  db_sessions,   \* database: the sessions opened and not closed
  db_cursor,     \* database: rows left in cursor "cur" of the session self.cursor refers to
  uuids,         \* number of uuid4() values drawn so far
  in_call,       \* retry wrapper: a read() call is between two attempts
  tries,         \* retry wrapper: failed attempts of the call in progress
  call_bs,       \* retry wrapper: the batch_size argument of the call in progress
  faulty,        \* number of read() calls in which an attempt has failed
  att,           \* history: what the last attempt of read() did, in order
  call,          \* history: attempts and connects of the last read() call
  result,        \* history: what the last completed read() call gave the host
  returned,      \* history: the results of the completed read() calls that returned
  emitted,       \* history: <<index, position>> of every row returned in a batch
  reported,      \* history: the state ids handed to self.state, in order
  listed,        \* history: number of get_tables() calls made so far
  listing,       \* history: what the last get_tables() call gave the host
  qin,           \* query builder: the arguments of get_query
  qout,          \* query builder: the text it returned ("" before the call)
  kin,           \* key strategy: the argument of key_strategy
  kout           \* key strategy: what it returned (NotSelected before the call)

config == <<tables, batch_size, inckey, incval, persisted, source_state>>
engine == <<index, conn, cursor, state_id, loaded, saved_state, current_keys>>
database == <<db_opened, db_sessions, db_cursor, uuids>>
wrapper == <<in_call, tries, call_bs, faulty>>
history == <<att, call, result, returned, emitted, reported>>
lister == <<listed, listing>>
builder == <<qin, qout, kin, kout>>
vars == <<config, engine, database, wrapper, history, lister, builder>>

Min(a, b) == IF a < b THEN a ELSE b

(***************************************************************************)
(* Construction: Postgres.__init__                                         *)
(***************************************************************************)
\* the table lists a source is configured with
TableLists ==
  {<<>>, <<"sales.orders", "public.users">>, <<"log.ev.x", "public.blank">>}

HasColumn(value, column) == InSeq(column, DbColumns(value))

\* OrderedDict(pairs): a later pair of the same key replaces the value only
RECURSIVE OrderedDict(_)
OrderedDict(pairs) ==
  IF pairs = <<>> THEN <<>>
  ELSE LET n == Len(pairs)
           front == OrderedDict(SubSeq(pairs, 1, n - 1))
           last == pairs[n]
       IN IF \E i \in 1..Len(front) : front[i][1] = last[1]
          THEN [i \in 1..Len(front) |->
                  IF front[i][1] = last[1] THEN last ELSE front[i]]
          ELSE Append(front, last)

\* row.get(key)
Get(row, key) == IF key \in DOMAIN row THEN row[key] ELSE PyNone

\* LastValue with the defect of keeping the first key column only
LastValueFirst(keys, last_row) ==
  OrderedDict([k \in 1..Min(1, Len(keys)) |->
                 <<keys[k].attname, Get(last_row, keys[k].attname)>>])

\* the last_value _report_state derives from a row
LastValue(keys, last_row) ==
  OrderedDict([k \in 1..Len(keys) |->
                 <<keys[k].attname, Get(last_row, keys[k].attname)>>])

\* a row as the cursor hands it to Python
PyRow(row) == [c \in DOMAIN row |-> PyInt(row[c])]

\* the rows of SQL_GET_KEYS and of SQL_GET_COLUMNS for '<table>'::regclass
Regclass(table) ==
  CHOOSE v \in {Catalog[i] : i \in 1..Len(Catalog)} : TableOf(v) = table

get_table_metadata(sql, table) ==
  IF sql = "SQL_GET_KEYS" THEN DbKeys(Regclass(table))
  ELSE LET cols == DbColumns(Regclass(table))
       IN [i \in 1..Len(cols) |-> Column(cols[i])]

\* the ordering key read() resolves for a table with no key yet
ResolveKeys(table) ==
  LET keys == get_table_metadata("SQL_GET_KEYS", table)
  IN key_strategy(IF keys # <<>> THEN keys
                  ELSE SubSeq(get_table_metadata("SQL_GET_COLUMNS", table), 1,
                              Min(1, Len(DbColumns(Regclass(table))))))

\* the state a host persisted from an earlier run: nothing, or a checkpoint
\* reported for one of the tables
Persisted(tabs, i) ==
  LET rows == DbRows(tabs[i + 1])
  IN [last_index |-> i,
      last_value |-> LastValue(ResolveKeys(TableOf(tabs[i + 1])),
                               PyRow(rows[Min(PersistedRow, Len(rows))]))]

PersistedStates(tabs) ==
  {<<>>} \cup {Persisted(tabs, i) : i \in 0..(Len(tabs) - 1)}

NoCursor == <<>>
NoAttempt == [index |-> 0, events |-> <<>>]
NoCall == [attempts |-> 0, connects |-> 0, refused |-> TRUE]
NoResult == [kind |-> "none", rows |-> <<>>]
NoListing == [kind |-> "none", tables |-> <<>>]
NotSelected == <<[attname |-> "", indnatts |-> 0, indisunique |-> FALSE,
                  indisprimary |-> FALSE, indexrelid |-> "none"]>>
NoInput == [schema |-> "", table |-> "", inckey |-> "", incval |-> PyStr(""),
            keys |-> <<>>, max_value |-> PyNone, state |-> <<>>]

InitEngine(tabs, bsize, ikey, ival, saved) ==
  /\ tables = tabs
  /\ batch_size = bsize
  /\ inckey = ikey
  /\ incval = ival
  /\ persisted = saved
  /\ source_state = <<>>
  /\ index = (IF saved = <<>> THEN 0 ELSE saved.last_index)
  /\ conn = 0
  /\ cursor = 0
  /\ state_id = ""
  /\ loaded = 0
  /\ saved_state = saved
  /\ current_keys = <<>>
  /\ db_opened = 0
  /\ db_sessions = {}
  /\ db_cursor = NoCursor
  /\ uuids = 0
  /\ in_call = FALSE
  /\ tries = 0
  /\ call_bs = 0
  /\ faulty = 0
  /\ att = NoAttempt
  /\ call = NoCall
  /\ result = NoResult
  /\ returned = <<>>
  /\ emitted = {}
  /\ reported = <<>>
  /\ listed = 0
  /\ listing = NoListing

Init ==
  /\ \E tabs \in TableLists :
     \E bsize \in {SmallBatch, BATCH_SIZE} :
     \E inc \in {<<"", PyStr("")>>, <<"ts", PyInt(2)>>} :
     \E saved \in PersistedStates(tabs) :
        /\ inc[1] # "" => \A i \in 1..Len(tabs) : HasColumn(tabs[i], inc[1])
        /\ InitEngine(tabs, bsize, inc[1], inc[2], saved)
  /\ qin = NoInput
  /\ qout = ""
  /\ kin = <<>>
  /\ kout = NotSelected

(***************************************************************************)
(* connect and the retry wrapper of read()                                 *)
(***************************************************************************)
\* what psycopg2.connect raises when it fails
ConnectErrors ==
  {[cls |-> "OperationalError",
    message |-> "FATAL:  password authentication failed for user \"test\""],
   [cls |-> "OperationalError",
    message |-> "could not connect to server: Connection refused"],
   [cls |-> "DatabaseError", message |-> "TestRetriesError"]}

\* what a failing statement raises
ExecuteError == [cls |-> "DatabaseError", message |-> "server closed the connection unexpectedly"]

\* connect with the defect of not classifying the authentication failure
connectUnclassified(e) == e

\* connect: the error it raises when psycopg2.connect raised e
connect(e) ==
  IF e.cls = "OperationalError" /\ Contains(e.message, "authentication failed")
  THEN [cls |-> "PanoplyException", message |-> "Login failed for user: test",
        retryable |-> FALSE]
  ELSE e

\* GivesUp with the defect of allowing one attempt more
GivesUpLate(err, attempts) ==
  \/ err.cls \notin {"DatabaseError", "OperationalError"}
  \/ attempts >= MAX_RETRIES + 1

\* backoff.on_exception(expo, psycopg2.DatabaseError, max_tries=MAX_RETRIES):
\* the error is raised to the caller when it is no DatabaseError or when the
\* attempt that failed was the last one allowed
GivesUp(err, attempts) ==
  \/ err.cls \notin {"DatabaseError", "OperationalError"}
  \/ attempts >= MAX_RETRIES

(***************************************************************************)
(* Postgres.read: one attempt                                              *)
(***************************************************************************)
Value == tables[index + 1]
Schema == SchemaOf(Value)
Table == TableOf(Value)

\* batch_size = batch_size or self.batch_size
Batch(bs) == IF bs # 0 THEN bs ELSE batch_size

\* the batch_size argument of a call: None (0), or a size when the source
\* configures none
BatchArgs == IF batch_size = BATCH_SIZE THEN {0, SmallBatch} ELSE {0}

\* Done with the defect of stopping one table early
DoneEarly == index + 1 >= Len(tables)

\* if self.index >= total
Done == index >= Len(tables)

\* NextTable with the defect of skipping a table
SkipTable == index + 2

\* self.index += 1
NextTable == index + 1

get_max_value(schema, table, column) ==
  IF column = "" THEN PyNone ELSE DbMax(schema, table, column)

\* State with the defect of resuming from nothing
StateNone == <<>>

\* state = self.saved_state.get('last_value', None)
State == IF saved_state = <<>> THEN <<>> ELSE saved_state.last_value

\* self.current_keys after the index introspection, when it runs
IndexKeys ==
  IF current_keys # <<>> THEN current_keys
  ELSE get_table_metadata("SQL_GET_KEYS", Table)

\* FirstColumn with the defect of taking every column
EveryColumn == get_table_metadata("SQL_GET_COLUMNS", Table)

\* get_table_metadata(SQL_GET_COLUMNS, table)[:1]
FirstColumn ==
  LET cols == get_table_metadata("SQL_GET_COLUMNS", Table)
  IN SubSeq(cols, 1, Min(1, Len(cols)))

\* ResolvedKeys with the defect of cutting a key chosen before to its
\* first column
ResolvedKeysCut ==
  IF current_keys # <<>> THEN SubSeq(current_keys, 1, 1)
  ELSE key_strategy(IF IndexKeys # <<>> THEN IndexKeys ELSE FirstColumn)

\* self.current_keys when the cursor is declared
ResolvedKeys == key_strategy(IF IndexKeys # <<>> THEN IndexKeys ELSE FirstColumn)

\* q = get_query(**self.get_query_opts(schema, table, state, max_value))
Query(keys) ==
  get_query(Schema, Table, inckey, incval, keys,
            get_max_value(Schema, Table, inckey), State)

\* the steps of an attempt that can fail, in the order it takes them
Plan ==
  IF cursor # 0 THEN <<"fetch">>
  ELSE <<"connect">>
         \o (IF current_keys = <<>> THEN <<"keys">> ELSE <<>>)
         \o (IF IndexKeys = <<>> THEN <<"columns">> ELSE <<>>)
         \o (IF inckey # "" THEN <<"max">> ELSE <<>>)
         \o <<"declare", "fetch">>

Statement(step, bs, q) ==
  CASE step = "keys" -> "SQL_GET_KEYS " \o Table
    [] step = "columns" -> "SQL_GET_COLUMNS " \o Table
    [] step = "max" -> "SELECT MAX(\"" \o inckey \o "\") FROM \"" \o Schema
                          \o "\".\"" \o Table \o "\""
    [] step = "declare" -> "DECLARE cur CURSOR FOR " \o q
    [] step = "fetch" -> "FETCH FORWARD " \o ToString(Batch(bs)) \o " FROM cur"
    [] OTHER -> ""

Event(kind, text, st) == [e |-> kind, q |-> text, st |-> st]

\* the events of the first n steps of the plan
Steps(plan, n, bs, q) ==
  [i \in 1..n |->
     IF plan[i] = "connect" THEN Event("connect", "", <<>>)
     ELSE Event("execute", Statement(plan[i], bs, q), <<>>)]

\* the call an attempt belongs to: a new one unless a call is being retried
CallSoFar == IF in_call THEN call ELSE NoCall

Connects == IF cursor = 0 THEN 1 ELSE 0

\* Tagged with the defect of letting a column of the row win over a tag
TaggedUnder(row, table, schema, id) ==
  [c \in DOMAIN row \cup {"__tablename", "__schemaname", "__state"} |->
     IF c \in DOMAIN row THEN row[c]
     ELSE CASE c = "__tablename" -> PyStr(table)
            [] c = "__schemaname" -> PyStr(schema)
            [] OTHER -> PyStr(id)]

\* dict(r, **internals)
Tagged(row, table, schema, id) ==
  [c \in DOMAIN row \cup {"__tablename", "__schemaname", "__state"} |->
     CASE c = "__tablename" -> PyStr(table)
       [] c = "__schemaname" -> PyStr(schema)
       [] c = "__state" -> PyStr(id)
       [] OTHER -> row[c]]

\* Uuid with the defect of returning one value every time
UuidFixed(n) == "uuid-0"

\* str(uuid.uuid4()): a value no earlier call returned
Uuid(n) == "uuid-" \o ToString(n)

\* the results of the calls made so far, kept as long as no attempt failed
Returned(r) == IF faulty = 0 THEN Append(returned, r) ELSE <<>>

\* the call after one more attempt that called connect c times; refused
\* tells whether connect has failed in every attempt of the call
Attempted(c, r) ==
  [attempts |-> CallSoFar.attempts + 1,
   connects |-> CallSoFar.connects + c,
   refused |-> CallSoFar.refused /\ r]

\* Outcome with the defect of reporting no checkpoint
OutcomeUnreported(n, id, saved) ==
  IF n = 0
  THEN <<Event("close", "", <<>>), Event("return", "", <<>>)>>
  ELSE <<Event("return", id, <<>>)>>

\* what an attempt that fetched n rows does after the fetch
Outcome(n, id, saved) ==
  IF n = 0
  THEN <<Event("close", "", <<>>), Event("return", "", <<>>)>>
  ELSE <<Event("state", id, saved), Event("return", id, <<>>)>>

\* reset with the defect of keeping the count of loaded rows
resetKeepsLoaded == [loaded |-> loaded, conn |-> 0, cursor |-> 0]

\* reset with the defect of keeping the connection handle
resetKeepsConn == [loaded |-> 0, conn |-> conn, cursor |-> 0]

\* Postgres.reset: the fields it assigns
reset == [loaded |-> 0, conn |-> 0, cursor |-> 0]

\* NoKeys with the defect of keeping the ordering key of the table
KeptKeys == current_keys

\* self.current_keys = None
NoKeys == <<>>

\* if self.index >= total: return None
ReadDone(bs) ==
  /\ in_call => bs = call_bs
  /\ Done
  /\ Cardinality({i \in 1..Len(returned) : returned[i].kind = "done"}) < MaxDone
  /\ att' = [index |-> index, events |-> <<Event("return", "", <<>>)>>]
  /\ call' = Attempted(0, FALSE)
  /\ result' = [kind |-> "done", rows |-> <<>>]
  /\ returned' = Returned([kind |-> "done", index |-> index, pos |-> <<>>])
  /\ in_call' = FALSE
  /\ tries' = 0
  /\ call_bs' = 0
  /\ UNCHANGED <<config, engine, database, faulty, emitted, reported, lister,
                 builder>>

\* the rest of an attempt that fetched the rows at positions cur[1..n] of
\* the table through the cursor of session, after the events done
Fetched(bs, session, keys, cur, n, id, done) ==
  /\ db_opened' = (IF cursor = 0 THEN db_opened + 1 ELSE db_opened)
  /\ uuids' = uuids + 1
  /\ state_id' = id
  /\ IF n = 0
     THEN \* self.close(); self.index += 1; ...
          /\ db_sessions' = db_sessions \ {session}
          /\ db_cursor' = NoCursor
          /\ conn' = reset.conn
          /\ cursor' = reset.cursor
          /\ index' = NextTable
          /\ loaded' = reset.loaded
          /\ current_keys' = NoKeys
          /\ saved_state' = <<>>
          /\ result' = [kind |-> "batch", rows |-> <<>>]
          /\ reported' = reported
          /\ att' = [index |-> index, events |-> done \o Outcome(n, id, <<>>)]
     ELSE \* self._report_state(self.index, last_row)
          \E fetched \in {[i \in 1..n |->
                             Tagged(PyRow(DbRows(Value)[cur[i]]), Table, Schema, id)]} :
          \E saved \in {[last_index |-> index,
                          last_value |-> LastValue(keys, fetched[n])]} :
            /\ db_sessions' = db_sessions \cup {session}
            /\ db_cursor' = SubSeq(cur, n + 1, Len(cur))
            /\ conn' = session
            /\ cursor' = session
            /\ index' = index
            /\ loaded' = loaded + n
            /\ current_keys' = keys
            /\ saved_state' = saved
            /\ result' = [kind |-> "batch", rows |-> fetched]
            /\ reported' = Append(reported, id)
            /\ att' = [index |-> index, events |-> done \o Outcome(n, id, saved)]
  /\ returned' = Returned([kind |-> "batch", index |-> index,
                           pos |-> SubSeq(cur, 1, n)])
  /\ emitted' = emitted \cup {<<index, cur[i]>> : i \in 1..n}

\* an attempt in which connect and every statement succeed
ReadBatch(bs) ==
  /\ in_call => bs = call_bs
  /\ ~Done
  /\ IF cursor # 0
     THEN Fetched(bs, cursor, current_keys, db_cursor,
                  Min(Batch(bs), Len(db_cursor)), Uuid(uuids + 1),
                  Steps(<<"fetch">>, 1, bs, ""))
     ELSE \E plan \in {Plan} : \E keys \in {ResolvedKeys} :
          \E q \in {Query(keys)} : \E cur \in {DbSelect(q)} :
            Fetched(bs, db_opened + 1, keys, cur, Min(Batch(bs), Len(cur)),
                    Uuid(uuids + 1), Steps(plan, Len(plan), bs, q))
  /\ call' = Attempted(Connects, FALSE)
  /\ in_call' = FALSE
  /\ tries' = 0
  /\ call_bs' = 0
  /\ UNCHANGED <<config, faulty, lister, builder>>

\* RetryArgs with the defect of losing the argument, so that the call is
\* never made again
RetryArgsLost(bs) == -1

\* the wrapper calls read() again with the arguments of the call
RetryArgs(bs) == bs

\* the retry wrapper after an attempt raised err
Raised(err, bs) ==
  /\ tries > 0 \/ faulty < MaxFaultyCalls
  /\ faulty' = (IF tries = 0 THEN faulty + 1 ELSE faulty)
  /\ returned' = <<>>
  /\ IF GivesUp(err, tries + 1)
     THEN /\ in_call' = FALSE
          /\ tries' = 0
          /\ call_bs' = 0
          /\ result' = [kind |-> err.cls, rows |-> <<>>]
     ELSE /\ in_call' = TRUE
          /\ tries' = tries + 1
          /\ call_bs' = RetryArgs(bs)
          /\ result' = result

\* an attempt in which psycopg2.connect raises e
ReadConnectError(bs, e) ==
  /\ in_call => bs = call_bs
  /\ ~Done
  /\ cursor = 0
  /\ Raised(connect(e), bs)
  /\ att' = [index |-> index,
             events |-> <<Event("connect", e.cls, e),
                          Event("raise", connect(e).cls, connect(e))>>]
  /\ call' = Attempted(1, TRUE)
  /\ UNCHANGED <<config, engine, database, emitted, reported, lister, builder>>

\* an attempt in which the statement of step n of the plan raises a
\* DatabaseError: execute resets the handles and raises it again
ReadExecuteError(bs, step) ==
  /\ in_call => bs = call_bs
  /\ ~Done
  /\ step # "connect"
  /\ \E plan \in {Plan} : \E n \in 1..Len(plan) :
       /\ plan[n] = step
       /\ \E keys \in {IF step \in {"keys", "columns"} THEN current_keys
                        ELSE IF cursor = 0 THEN ResolvedKeys ELSE current_keys} :
            /\ current_keys' = keys
            /\ att' = [index |-> index,
                       events |-> Append(Steps(plan, n, bs, Query(keys)),
                                         Event("raise", ExecuteError.cls,
                                               ExecuteError))]
  /\ Raised(ExecuteError, bs)
  /\ loaded' = reset.loaded
  /\ conn' = reset.conn
  /\ cursor' = reset.cursor
  /\ db_opened' = (IF cursor = 0 THEN db_opened + 1 ELSE db_opened)
  /\ db_sessions' = (IF cursor = 0 THEN db_sessions \cup {db_opened + 1}
                     ELSE db_sessions)
  /\ db_cursor' = NoCursor
  /\ call' = Attempted(Connects, FALSE)
  /\ UNCHANGED <<config, index, state_id, saved_state, uuids, emitted,
                 reported, lister, builder>>

(***************************************************************************)
(* Postgres.get_tables, which the host calls between calls of read()       *)
(***************************************************************************)
\* the rows of information_schema.tables outside the system schemas
DbTables ==
  [i \in 1..Len(Catalog) |->
     [table_schema |-> SchemaOf(Catalog[i]),
      table_name |-> TableOf(Catalog[i]),
      table_type |-> IF Catalog[i] = "log.ev.x" THEN "VIEW" ELSE "BASE TABLE"]]

format_table_name(row) ==
  LET value == row.table_schema \o "." \o row.table_name
  IN [name |-> IF row.table_type = "VIEW" THEN value \o " (VIEW)" ELSE value,
      value |-> value]

\* the engine after get_tables: it assigns the session it opens to
\* self.conn and self.cursor, over the handles of a scan in progress, and
\* close or, when the statement fails, execute resets them; closed tells
\* whether the session it opened has been closed
Listed(outcome, closed) ==
  /\ ~in_call
  /\ listed < MaxListings
  /\ listed' = listed + 1
  /\ listing' = outcome
  /\ db_opened' = db_opened + 1
  /\ db_sessions' = (IF closed THEN db_sessions
                     ELSE db_sessions \cup {db_opened + 1})
  /\ db_cursor' = NoCursor
  /\ loaded' = reset.loaded
  /\ conn' = reset.conn
  /\ cursor' = reset.cursor
  /\ UNCHANGED <<config, index, state_id, saved_state, current_keys, uuids,
                 wrapper, history, builder>>

\* get_tables when connect and the statement succeed
GetTables ==
  Listed([kind |-> "tables",
          tables |-> [i \in 1..Len(DbTables) |-> format_table_name(DbTables[i])]],
         TRUE)

\* get_tables when psycopg2.connect raises e: nothing has been assigned
GetTablesConnectError(e) ==
  /\ ~in_call
  /\ listed < MaxListings
  /\ listed' = listed + 1
  /\ listing' = [kind |-> connect(e).cls, tables |-> <<>>]
  /\ UNCHANGED <<config, engine, database, wrapper, history, builder>>

\* get_tables when the statement raises a DatabaseError: execute resets the
\* handles and raises it again
GetTablesExecuteError ==
  Listed([kind |-> ExecuteError.cls, tables |-> <<>>], FALSE)

Next ==
  \/ \E bs \in BatchArgs : ReadDone(bs)
  \/ \E bs \in BatchArgs : ReadBatch(bs)
  \/ \E bs \in BatchArgs : \E e \in ConnectErrors : ReadConnectError(bs, e)
  \/ \E bs \in BatchArgs :
       \E step \in {"keys", "columns", "max", "declare", "fetch"} :
          ReadExecuteError(bs, step)

Spec == Init /\ [][Next]_vars

\* a step in which a call of read() returns a batch: of the attempts of
\* Next only ReadBatch draws a state id, and it does so whenever the scan
\* is not over and the call can be made
ReturnsBatch ==
  /\ in_call => call_bs \in BatchArgs
  /\ ~Done
  /\ uuids' = uuids + 1

\* the host keeps calling read() and the retry wrapper keeps retrying: an
\* attempt that succeeds is made in the end, since read() blocks its caller
\* and failures are bounded by MaxFaultyCalls
Fairness ==
  /\ WF_uuids(ReturnsBatch)
  /\ WF_vars(\E bs \in BatchArgs : ReadDone(bs))

SpecLive == Init /\ [][Next]_vars /\ Fairness

\* the host calling get_tables between calls of read() that do not fail
NextTables ==
  \/ \E bs \in BatchArgs : ReadDone(bs)
  \/ \E bs \in BatchArgs : ReadBatch(bs)
  \/ GetTables
  \/ \E e \in ConnectErrors : GetTablesConnectError(e)
  \/ GetTablesExecuteError

SpecTables == Init /\ [][NextTables]_vars

(***************************************************************************)
(* get_query on its own: the arguments are drawn from the sets below and   *)
(* the builder is applied to them once.                                    *)
(***************************************************************************)
KeyColumns == <<"pk1", "pk2", "pk3">>
StateValues == {PyStr("1"), PyStr("1994-09-16"), PyInt(7), PyStr("ts")}

QueryKeys ==
  {[i \in 1..n |-> Column(KeyColumns[i])] : n \in 0..MaxKeys}
    \cup {<<Column("ts")>>}

QueryStates ==
  UNION {{[i \in 1..n |-> <<KeyColumns[i], f[i]>>] : f \in [1..n -> StateValues]} :
           n \in 0..MaxKeys}

QueryInputs ==
  [schema : {"public"}, table : {"test"},
   inckey : {"", "ts", "pk"},
   incval : {PyStr(""), PyInt(0), PyInt(2), PyStr("2020-01-01")},
   keys : QueryKeys,
   max_value : {PyNone, PyInt(0), PyInt(3)},
   state : QueryStates]

InitQuery ==
  /\ InitEngine(<<>>, BATCH_SIZE, "", PyStr(""), <<>>)
  /\ qin \in QueryInputs
  /\ qout = ""
  /\ kin = <<>>
  /\ kout = NotSelected

BuildQuery ==
  /\ qout = ""
  /\ qout' = get_query(qin.schema, qin.table, qin.inckey, qin.incval, qin.keys,
                       qin.max_value, qin.state)
  /\ UNCHANGED <<config, engine, database, wrapper, history, lister, qin, kin,
                 kout>>

NextQuery == BuildQuery

SpecQuery == InitQuery /\ [][NextQuery]_vars

(***************************************************************************)
(* key_strategy on its own: the argument is a list of at most              *)
(* MaxCandidates descriptors and the function is applied to it once.       *)
(***************************************************************************)
\* rows of SQL_GET_KEYS for a table with the primary key (a, b), unique
\* indexes on b, on (idx1, idx2) and on idx3 and an index on c, and a row of
\* SQL_GET_COLUMNS
Descriptors ==
  {Key("a", 2, TRUE, TRUE, "t_pkey"), Key("b", 2, TRUE, TRUE, "t_pkey"),
   Key("b", 1, TRUE, FALSE, "t_b"), Key("c", 1, FALSE, FALSE, "t_c"),
   Key("idx1", 2, TRUE, FALSE, "idx12"), Key("idx2", 2, TRUE, FALSE, "idx12"),
   Key("idx3", 1, TRUE, FALSE, "idx3123"), Column("id")}

KeyInputs == UNION {[1..n -> Descriptors] : n \in 0..MaxCandidates}

InitKeys ==
  /\ InitEngine(<<>>, BATCH_SIZE, "", PyStr(""), <<>>)
  /\ qin = NoInput
  /\ qout = ""
  /\ kin \in KeyInputs
  /\ kout = NotSelected

SelectKeys ==
  /\ kout = NotSelected
  /\ kout' = key_strategy(kin)
  /\ UNCHANGED <<config, engine, database, wrapper, history, lister, qin, qout,
                 kin>>

NextKeys == SelectKeys

SpecKeys == InitKeys /\ [][NextKeys]_vars

(***************************************************************************)
(* Properties                                                              *)
(***************************************************************************)
Last(seq) == seq[Len(seq)]

Range(seq) == {seq[i] : i \in 1..Len(seq)}

StartsWith(s, prefix) ==
  Len(prefix) <= Len(s) /\ SubSeq(s, 1, Len(prefix)) = prefix

DeclarePrefix == "DECLARE cur CURSOR FOR "

\* the SELECT statements of the cursors an attempt declared
Declarations(events) ==
  {SubSeq(events[i].q, Len(DeclarePrefix) + 1, Len(events[i].q)) :
     i \in {j \in 1..Len(events) :
              events[j].e = "execute" /\ StartsWith(events[j].q, DeclarePrefix)}}

WhereOfBody(b) ==
  ConditionPart(b, IndexOf(b, " WHERE "), IndexOf(b, " ORDER BY "))

\* the condition after WHERE in a SELECT statement, "" when it has none
WhereOf(q) == WhereOfBody(SqlBody(q))

\* the predicate that resumes after last_value: (c1,...,cN) >= ('v1',...,'vN'),
\* without parentheses for one column
ResumeText(last_value) ==
  LET cols == Join([i \in 1..Len(last_value) |-> last_value[i][1]], ",")
      vals == Join([i \in 1..Len(last_value) |->
                      "'" \o Format(last_value[i][2]) \o "'"], ",")
  IN IF Len(last_value) > 1 THEN "(" \o cols \o ") >= (" \o vals \o ")"
     ELSE cols \o " >= " \o vals

\* the table the engine starts with
StartIndex == IF persisted = <<>> THEN 0 ELSE persisted.last_index

\* the query of the first cursor declared for table i
TableQuery(i) ==
  get_query(SchemaOf(tables[i + 1]), TableOf(tables[i + 1]), inckey, incval,
            ResolveKeys(TableOf(tables[i + 1])),
            get_max_value(SchemaOf(tables[i + 1]), TableOf(tables[i + 1]), inckey),
            IF persisted # <<>> /\ persisted.last_index = i
            THEN persisted.last_value ELSE <<>>)

\* the tables whose empty batch has been returned
Finished == StartIndex..(Min(index, Len(tables)) - 1)

\* the last attempt returned to the host
LastReturned == att.events # <<>> /\ Last(att.events).e = "return"

\* the last attempt raised an error
LastRaised == att.events # <<>> /\ Last(att.events).e = "raise"

\* C1: once a checkpoint has been reported for the current table, every
\* cursor declared for it (after a failed statement) has a WHERE clause that
\* starts with the resume predicate of the last reported checkpoint.
C1_RetryResumesFromCheckpoint ==
  [][(saved_state # <<>> /\ reported # <<>>) =>
       \A q \in Declarations(att'.events) :
          /\ WhereOf(q) # ""
          /\ StartsWith(WhereOf(q), ResumeText(saved_state.last_value))]_vars

\* the positions of the rows returned in the batches of table i, in order
RECURSIVE Positions(_, _)
Positions(rs, i) ==
  IF rs = <<>> THEN <<>>
  ELSE (IF Head(rs).kind = "batch" /\ Head(rs).index = i THEN Head(rs).pos
        ELSE <<>>) \o Positions(Tail(rs), i)

EmptyBefore(j) ==
  Cardinality({k \in 1..(j - 1) :
                 returned[k].kind = "batch" /\ returned[k].pos = <<>>})

\* C2: without errors, the calls return the batches of the tables in list
\* order, one empty batch after the non-empty batches of each table, and
\* the done result exactly from the call after the empty batch of the last
\* table on; the batches of a finished table are the rows of its query.
C2_BatchesInListOrder ==
  faulty = 0 =>
    /\ \A j \in 1..Len(returned) :
          /\ returned[j].index = StartIndex + EmptyBefore(j)
          /\ returned[j].kind = "done" <=> returned[j].index >= Len(tables)
    /\ \A i \in Finished : Positions(returned, i) = DbSelect(TableQuery(i))

C2_Witness ==
  /\ faulty = 0
  /\ persisted = <<>>
  /\ Len(tables) = 2
  /\ Len(returned) >= 5
  /\ Last(returned).kind = "done"
  /\ \E j \in 1..Len(returned) : returned[j].index = 1 /\ returned[j].pos # <<>>

\* the attempt that ends in the next state returned a non-empty batch
ReturnsRows ==
  /\ Last(att'.events).e = "return"
  /\ result'.kind = "batch"
  /\ result'.rows # <<>>

StateEvents(events) == {i \in 1..Len(events) : events[i].e = "state"}

\* C3: an attempt that returns a non-empty batch hands exactly one
\* checkpoint to self.state, before it returns; an attempt that fetches no
\* row, fails or returns done hands over none.
C3_OneCheckpointPerBatch ==
  [][IF ReturnsRows
     THEN /\ Cardinality(StateEvents(att'.events)) = 1
          /\ \A i \in StateEvents(att'.events) : i < Len(att'.events)
          /\ Len(reported') = Len(reported) + 1
     ELSE /\ StateEvents(att'.events) = {}
          /\ reported' = reported]_vars

C3_Witness ==
  /\ LastReturned
  /\ call.attempts > 1
  /\ result.kind = "batch"
  /\ result.rows # <<>>
  /\ Len(reported) >= 2

\* C4: every row of a returned batch carries the state id handed to
\* self.state for that batch, and no two batches share a state id.
C4_StateIdPerBatch ==
  /\ \A i, j \in 1..Len(reported) : i # j => reported[i] # reported[j]
  /\ result.rows # <<>> =>
       /\ \A k \in 1..Len(result.rows) :
             result.rows[k]["__state"] = PyStr(Last(reported))
       /\ LastReturned =>
            \A i \in StateEvents(att.events) : att.events[i].q = Last(reported)

C4_Witness ==
  /\ Len(reported) >= 3
  /\ faulty > 0
  /\ LastReturned
  /\ Len(result.rows) >= 2
  /\ index = 1

\* C5: the checkpoint of a batch holds the index of the table the batch was
\* fetched from and, for each column of the table's ordering key, in order,
\* the value of the column in the last row of the batch.
C5_CheckpointOfLastRow ==
  \A i \in StateEvents(att.events) :
     LET key == ResolveKeys(TableOf(tables[att.index + 1]))
         last == Last(result.rows)
     IN /\ att.events[i].st.last_index = att.index
        /\ att.events[i].st.last_value =
             [k \in 1..Len(key) |-> <<key[k].attname, last[key[k].attname]>>]
        /\ saved_state = att.events[i].st

C5_Witness ==
  /\ StateEvents(att.events) # {}
  /\ att.index = 0
  /\ tables[1] = "sales.orders"
  /\ inckey = "ts"
  /\ Len(result.rows) = 2

C7_ResumePredicate ==
  qout # "" =>
    /\ IF qin.state # <<>>
       THEN \/ WhereOf(qout) = ResumeText(qin.state)
            \/ StartsWith(WhereOf(qout), ResumeText(qin.state) \o " AND ")
       ELSE \/ WhereOf(qout) = ""
            \/ /\ qin.inckey # ""
               /\ \/ StartsWith(WhereOf(qout), qin.inckey \o " >= '")
                  \/ StartsWith(WhereOf(qout), "(" \o qin.inckey \o " >= '")
    /\ (/\ qin.keys = <<Column("pk1"), Column("pk2")>>
        /\ qin.state = <<<<"pk1", PyStr("1")>>, <<"pk2", PyStr("1994-09-16")>>>>
        /\ qin.inckey = "")
         => qout = "SELECT * FROM \"public\".\"test\" WHERE (pk1,pk2) >= "
                     \o "('1','1994-09-16') ORDER BY pk1,pk2"

C7_Witness ==
  /\ qout # ""
  /\ qin.keys = <<Column("pk1"), Column("pk2")>>
  /\ qin.state = <<<<"pk1", PyStr("1")>>, <<"pk2", PyStr("1994-09-16")>>>>
  /\ qin.inckey = "ts"
  /\ qin.incval = PyInt(2)

\* C8: a call returns done exactly when the index has reached the number of
\* tables as it starts; such a call leaves the handles, the database and
\* the checkpoints alone, and an empty batch is not the done result.
C8_DoneOnlyAfterLastTable ==
  [][Last(att'.events).e = "return" =>
       /\ result'.kind = "done" <=> index >= Len(tables)
       /\ result'.kind = "done" =>
            /\ Len(att'.events) = 1
            /\ UNCHANGED <<index, conn, cursor, saved_state, db_opened,
                           db_sessions, db_cursor, reported>>
       /\ result'.kind # "done" =>
            /\ result'.kind = "batch"
            /\ \E i \in 1..Len(att'.events) : att'.events[i].e = "execute"]_vars

C8_Witness ==
  /\ result.kind = "done"
  /\ LastReturned
  /\ Len(tables) = 2
  /\ index = 2
  /\ emitted # {}

\* the error the last attempt raised is one the retry wrapper retries
RaisedDatabaseError ==
  LastRaised /\ Last(att.events).q \in {"DatabaseError", "OperationalError"}

\* C9: a call makes at most 5 attempts; a failed attempt is retried as long
\* as fewer than 5 were made, the error of the fifth is raised to the host,
\* and when connect failed in each of them it was called exactly 5 times.
C9_AtMostFiveAttempts ==
  /\ call.attempts <= 5
  /\ RaisedDatabaseError =>
       /\ in_call <=> call.attempts < 5
       /\ ~in_call =>
            /\ call.attempts = 5
            /\ result.kind = Last(att.events).q
            /\ call.refused => call.connects = 5

C9_Witness ==
  /\ RaisedDatabaseError
  /\ ~in_call
  /\ call.attempts = 5
  /\ call.refused
  /\ call.connects = 5

\* the last attempt ended with connect raising an error
ConnectFailed ==
  /\ Len(att.events) = 2
  /\ att.events[1].e = "connect"
  /\ att.events[2].e = "raise"

\* C10: when the connection fails on authentication, connect raises a
\* PanoplyException that is not retryable and the call ends with it at once;
\* any other connection error is raised as it is.
C10_AuthenticationFailureIsFinal ==
  ConnectFailed =>
    IF Contains(att.events[1].st.message, "authentication failed")
    THEN /\ att.events[2].st.cls = "PanoplyException"
         /\ att.events[2].st.retryable = FALSE
         /\ ~in_call
         /\ result.kind = "PanoplyException"
         /\ call.attempts = 1 => call.connects = 1
    ELSE att.events[2].st = att.events[1].st

C10_Witness ==
  /\ ConnectFailed
  /\ att.events[2].st.cls = "PanoplyException"
  /\ call.attempts = 1
  /\ call.connects = 1
  /\ ~in_call

\* C11: an attempt of read() that fails leaves the cursor and the session
\* handle unset and loaded at 0, leaves the table index, the resume state and
\* the state id as they were, returns no rows and reports no checkpoint; the
\* call that ends with the failure gives the host the error, no batch.
C11_FailedAttemptKeepsCheckpoint ==
  [][Last(att'.events).e = "raise" =>
       /\ conn' = 0
       /\ cursor' = 0
       /\ loaded' = 0
       /\ UNCHANGED <<index, saved_state, state_id, reported, emitted>>
       /\ StateEvents(att'.events) = {}
       /\ in_call' => result' = result
       /\ ~in_call' => /\ result'.kind \notin {"batch", "done"}
                       /\ result'.rows = <<>>]_vars

\* the fifth attempt of a call failed after checkpoints had been reported
\* for the table being scanned
C11_Witness ==
  /\ LastRaised
  /\ ~in_call
  /\ call.attempts = 5
  /\ reported # <<>>
  /\ saved_state # <<>>
  /\ saved_state.last_index = index
  /\ cursor = 0
  /\ loaded = 0

\* C12: at most one database session opened by the engine is open at any
\* time, and the engine opens a session only when every session it opened
\* before has been closed.
C12_AtMostOneSession ==
  [][/\ Cardinality(db_sessions') <= 1
     /\ db_opened' > db_opened => db_sessions = {}]_vars

\* C13: whenever the session and cursor handles go from set to unset, the
\* session they referred to has been closed.
C13_HandlesDroppedOnlyWhenClosed ==
  [][(conn # 0 /\ conn' = 0) => conn \notin db_sessions']_vars

\* C14: a call of get_tables leaves the table index, the session and cursor
\* handles, the open scan cursor, the ordering key, the resume state and the
\* count of loaded rows as they were.
C14_ListingLeavesScanAlone ==
  [][listed' # listed =>
       UNCHANGED <<index, conn, cursor, db_cursor, current_keys, saved_state,
                   loaded>>]_vars

\* C15: between operations the cursor handle is unset exactly when the
\* session handle is unset, a set cursor belongs to the session held, and
\* loaded is 0 whenever the handles are unset.
C15_HandlesSetTogether ==
  /\ cursor = 0 <=> conn = 0
  /\ cursor # 0 => cursor = conn
  /\ cursor = 0 => loaded = 0

\* a FETCH on the open cursor of a scan that had loaded rows has just failed
C15_Witness ==
  /\ LastRaised
  /\ Len(att.events) = 2
  /\ att.events[1].e = "execute"
  /\ \E e \in emitted : e[1] = index
  /\ cursor = 0
  /\ conn = 0
  /\ loaded = 0

\* the statements of an attempt that query the maximum of a column
MaxQueries(events) ==
  {i \in 1..Len(events) :
     events[i].e = "execute" /\ StartsWith(events[i].q, "SELECT MAX(")}

\* C16: the maximum of the incremental column is queried once per table:
\* once a batch of the table has been returned, so that its cursor has been
\* declared with an upper bound, no later attempt queries the maximum again.
C16_MaxQueriedOncePerTable ==
  [][(/\ inckey # ""
      /\ reported # <<>>
      /\ saved_state # <<>>
      /\ saved_state.last_index = index)
       => MaxQueries(att'.events) = {}]_vars

\* the columns a statement orders by, <<>> when it has no ORDER BY
OrderByOf(q) == OrderPart(q, IndexOf(q, " ORDER BY "))

\* the columns of the ordering key followed by the incremental column when
\* it is set and no column of the key
KeysThenIncremental(keys, column) ==
  LET names == [i \in 1..Len(keys) |-> keys[i].attname]
  IN IF column # "" /\ ~InSeq(column, names) THEN Append(names, column)
     ELSE names

\* C17: the statement orders by the columns of the ordering key, in order,
\* followed by the incremental column exactly when it is set and not among
\* them; it has no ORDER BY only when the key is empty and no incremental
\* column is set.
C17_OrderByKeysThenIncremental ==
  qout # "" => OrderByOf(qout) = KeysThenIncremental(qin.keys, qin.inckey)

\* C18: the WHERE clause holds the incremental predicate, after the resume
\* predicate and AND when there is one, exactly when the incremental column
\* and the lower bound are set and the column is none of the columns of the
\* resume state; otherwise it holds the resume predicate only.
C18_IncrementalPredicate ==
  qout # "" =>
    LET resume == IF qin.state = <<>> THEN "" ELSE ResumeText(qin.state)
        lead == IF resume = "" THEN "" ELSE resume \o " AND "
        inc == qin.inckey \o " >= '" \o Format(qin.incval) \o "'"
    IN IF /\ qin.inckey # ""
          /\ Truthy(qin.incval)
          /\ \A i \in 1..Len(qin.state) : qin.state[i][1] # qin.inckey
       THEN \/ WhereOf(qout) = lead \o inc
            \/ StartsWith(WhereOf(qout), lead \o "(" \o inc \o " AND ")
       ELSE WhereOf(qout) = resume

\* C19: an attempt of read() on a table whose resolved ordering key is empty
\* (no index and no column) ends with an error: it declares no cursor,
\* returns no batch and reports no checkpoint.
C19_EmptyKeyIsFatal ==
  [][(index < Len(tables) /\ ResolveKeys(Table) = <<>>) =>
       /\ Last(att'.events).e = "raise"
       /\ Declarations(att'.events) = {}
       /\ reported' = reported
       /\ emitted' = emitted]_vars

\* the positions of the primary-key descriptors in a list of candidates
PrimaryAt(keys) == {i \in 1..Len(keys) : keys[i].indisprimary}

\* C20: for a list of candidates with at least one primary-key descriptor,
\* key_strategy returns exactly the primary-key descriptors, in the order
\* of the list, whatever other indexes the list holds.
C20_PrimaryKeyDecides ==
  (kout # NotSelected /\ PrimaryAt(kin) # {}) =>
    /\ Len(kout) = Cardinality(PrimaryAt(kin))
    /\ \A i \in PrimaryAt(kin) :
          kout[Cardinality({j \in PrimaryAt(kin) : j <= i})] = kin[i]

\* the primary key (a, b) listed after a unique index with fewer columns
C20_Witness ==
  /\ kin = <<Key("b", 1, TRUE, FALSE, "t_b"), Key("a", 2, TRUE, TRUE, "t_pkey"),
             Key("b", 2, TRUE, TRUE, "t_pkey")>>
  /\ kout = <<Key("a", 2, TRUE, TRUE, "t_pkey"), Key("b", 2, TRUE, TRUE, "t_pkey")>>

\* the descriptors of a list that belong to the index with the fewest
\* columns, the one listed first among several with as few
FewestColumns(keys) ==
  LET least == CHOOSE n \in {keys[i].indnatts : i \in 1..Len(keys)} :
                 \A i \in 1..Len(keys) : n <= keys[i].indnatts
      first == CHOOSE i \in 1..Len(keys) :
                 /\ keys[i].indnatts = least
                 /\ \A j \in 1..(i - 1) : keys[j].indnatts # least
  IN SelectSeq(keys, LAMBDA k : k.indexrelid = keys[first].indexrelid)

\* C21: for a non-empty list of candidates that are all descriptors of
\* unique indexes other than the primary key, key_strategy returns the
\* descriptors of the unique index with the fewest columns, the one listed
\* first among several with as few.
C21_SmallestUniqueIndex ==
  (/\ kout # NotSelected
   /\ kin # <<>>
   /\ \A i \in 1..Len(kin) :
         kin[i].indisunique /\ ~kin[i].indisprimary /\ kin[i].indexrelid # "")
    => kout = FewestColumns(kin)

\* the table of the last attempt has no index and at least one column
NoIndexButColumns ==
  /\ att.events # <<>>
  /\ att.index < Len(tables)
  /\ DbKeys(tables[att.index + 1]) = <<>>
  /\ DbColumns(tables[att.index + 1]) # <<>>

\* C22: for a table with no index and at least one column the ordering key
\* is the first column alone: every cursor declared for it orders by that
\* column (followed by the incremental column), every checkpoint of it
\* holds that column only, and it is the key the engine keeps.
C22_FirstColumnIsKey ==
  NoIndexButColumns =>
    LET first == DbColumns(tables[att.index + 1])[1]
    IN /\ \A q \in Declarations(att.events) :
             OrderByOf(q) = KeysThenIncremental(<<Column(first)>>, inckey)
       /\ \A i \in StateEvents(att.events) :
             /\ Len(att.events[i].st.last_value) = 1
             /\ att.events[i].st.last_value[1][1] = first
       /\ (cursor # 0 /\ index = att.index) => current_keys = <<Column(first)>>

\* a batch of such a table returned from a cursor declared again after a
\* failure
C22_Witness ==
  /\ NoIndexButColumns
  /\ LastReturned
  /\ call.attempts > 1
  /\ Declarations(att.events) # {}
  /\ StateEvents(att.events) # {}
  /\ reported # <<>>
  /\ cursor # 0

\* the condition of a statement holds no resume predicate: it is empty or
\* the incremental predicate alone
NoResumePredicate(q) ==
  \/ WhereOf(q) = ""
  \/ /\ inckey # ""
     /\ \/ StartsWith(WhereOf(q), inckey \o " >= '")
        \/ StartsWith(WhereOf(q), "(" \o inckey \o " >= '")

\* C23: an engine constructed with a persisted checkpoint starts at the
\* table of the checkpoint and scans no table before it; the cursors it
\* declares for that table before it reports a checkpoint itself carry the
\* resume predicate of the persisted checkpoint; the first cursor of every
\* later table carries no resume predicate; and the source configuration
\* holds no state any more.
C23_StartsFromPersistedCheckpoint ==
  [][persisted # <<>> =>
       /\ index >= persisted.last_index
       /\ att'.index >= persisted.last_index
       /\ source_state = <<>>
       /\ (index = persisted.last_index /\ reported = <<>>) =>
             \A q \in Declarations(att'.events) :
                /\ WhereOf(q) # ""
                /\ StartsWith(WhereOf(q), ResumeText(persisted.last_value))
       /\ (index > persisted.last_index /\ saved_state = <<>>) =>
             \A q \in Declarations(att'.events) : NoResumePredicate(q)]_vars

\* C24: every row of a returned batch carries the bare name and the schema
\* of the table the batch was fetched from, the value of the table split at
\* its first dot, and the state id of the batch, also when the table has a
\* column named like a tag; the other fields are the columns of the table.
C24_RowsAreTagged ==
  (LastReturned /\ result.kind = "batch") =>
    \A k \in 1..Len(result.rows) :
       LET row == result.rows[k]
           value == tables[att.index + 1]
       IN /\ row["__tablename"] = PyStr(TableOf(value))
          /\ row["__schemaname"] = PyStr(SchemaOf(value))
          /\ row["__state"] = PyStr(state_id)
          /\ value = "log.ev.x" =>
                row["__tablename"] = PyStr("ev.x") /\ row["__schemaname"] = PyStr("log")
          /\ DOMAIN row = Range(DbColumns(value))
                             \cup {"__tablename", "__schemaname", "__state"}
          /\ \A c \in Range(DbColumns(value)) \ {"__tablename"} :
                \E p \in 1..Len(DbRows(value)) : row[c] = PyInt(DbRows(value)[p][c])

\* a batch of two rows of the table that has a column named __tablename
C24_Witness ==
  /\ LastReturned
  /\ result.kind = "batch"
  /\ Len(result.rows) = 2
  /\ tables[att.index + 1] = "log.ev.x"
  /\ "__tablename" \in Range(DbColumns(tables[att.index + 1]))

\* C25: a read() that fetches no row closes the session of the cursor,
\* advances the table index by one and clears the resume state and the
\* ordering key, leaving the handles unset and loaded at 0; a read() that
\* returns rows leaves the table index and an ordering key already chosen
\* as they were and the cursor open.
C25_EmptyBatchAdvances ==
  [][(Last(att'.events).e = "return" /\ result'.kind = "batch") =>
       IF result'.rows = <<>>
       THEN /\ \E i \in 1..Len(att'.events) : att'.events[i].e = "close"
            /\ db_sessions' = db_sessions \ {cursor}
            /\ db_cursor' = NoCursor
            /\ cursor' = 0
            /\ conn' = 0
            /\ loaded' = 0
            /\ index' = index + 1
            /\ saved_state' = <<>>
            /\ current_keys' = <<>>
       ELSE /\ index' = index
            /\ cursor' # 0
            /\ cursor' \in db_sessions'
            /\ cursor # 0 => cursor' = cursor
            /\ current_keys # <<>> => current_keys' = current_keys
            /\ loaded' = loaded + Len(result'.rows)
            /\ saved_state'.last_index = index]_vars

\* the empty batch of the first table has just been returned from the
\* cursor that had returned its rows
C25_Witness ==
  /\ LastReturned
  /\ result.kind = "batch"
  /\ result.rows = <<>>
  /\ Len(att.events) = 3
  /\ att.index = 0
  /\ index = 1
  /\ emitted # {}
  /\ cursor = 0
  /\ saved_state = <<>>
  /\ current_keys = <<>>

\* the names of the columns of a key
Names(keys) == [k \in 1..Len(keys) |-> keys[k].attname]

\* the attempt that ends in the next state returned the empty batch
ReturnsEmpty ==
  /\ Last(att'.events).e = "return"
  /\ result'.kind = "batch"
  /\ result'.rows = <<>>

\* C26: the ordering key chosen for a table stays as it is until the scan
\* of the table ends, through failed attempts and cursors declared again;
\* every cursor declared for the table orders by its columns, in order
\* (followed by the incremental column), every checkpoint of the table
\* holds exactly its columns, in order, and the key of an open cursor is not
\* empty when the table has a column.
C26_KeyStableDuringScan ==
  [][/\ (current_keys # <<>> /\ ~ReturnsEmpty) => current_keys' = current_keys
     /\ current_keys' # <<>> =>
           \A q \in Declarations(att'.events) :
              OrderByOf(q) = KeysThenIncremental(current_keys', inckey)
     /\ \A i \in StateEvents(att'.events) :
           [k \in 1..Len(att'.events[i].st.last_value) |->
              att'.events[i].st.last_value[k][1]] = Names(current_keys')
     /\ (cursor' # 0 /\ DbColumns(tables[index' + 1]) # <<>>) =>
           current_keys' # <<>>]_vars

\* a batch of the table with the two-column key, returned from a cursor
\* declared again after a failed attempt, the key having been chosen before
C26_Witness ==
  /\ LastReturned
  /\ call.attempts > 1
  /\ Declarations(att.events) # {}
  /\ StateEvents(att.events) # {}
  /\ Len(reported) >= 2
  /\ Len(current_keys) = 2
  /\ cursor # 0

\* the key is unique in the table: no two rows agree on all its columns
UniqueKey(value, keys) ==
  /\ keys # <<>>
  /\ \A p, r \in 1..Len(DbRows(value)) :
        p # r => \E k \in 1..Len(keys) :
                   DbRows(value)[p][keys[k].attname] # DbRows(value)[r][keys[k].attname]

\* the positions in the table of the rows of a batch
PositionsOf(value, rows) ==
  {p \in 1..Len(DbRows(value)) :
     \E k \in 1..Len(rows) :
        \A c \in DOMAIN DbRows(value)[p] : rows[k][c] = PyInt(DbRows(value)[p][c])}

\* the positions of the rows of the current table that have been returned
EmittedOf(i) == {p \in 1..Len(DbRows(tables[i + 1])) : <<i, p>> \in emitted}

\* the row at position p is the row the checkpoint was taken from
CheckpointRow(value, p, last_value) ==
  \A k \in 1..Len(last_value) :
     PyInt(DbRows(value)[p][last_value[k][1]]) = last_value[k][2]

\* the row at position p passes the lower bound of the incremental column,
\* as every row does that a run with this configuration returned
PassesLowerBound(value, p) ==
  inckey = "" \/ DbRows(value)[p][inckey] >= incval.v

\* C27: for a table with a unique ordering key, a batch fetched from a
\* cursor declared from a checkpoint holds exactly one row returned before,
\* the row the checkpoint was taken from, as its first row (for a persisted
\* checkpoint: the row an earlier run with this configuration returned); a
\* batch fetched from a cursor that was open, or declared without a
\* checkpoint, holds no row returned before.
C27_OneRowAgainPerResume ==
  [][(/\ Last(att'.events).e = "return"
      /\ result'.kind = "batch"
      /\ result'.rows # <<>>
      /\ UniqueKey(Value, current_keys'))
       => LET batch == PositionsOf(Value, result'.rows)
              again == batch \cap EmittedOf(index)
          IN /\ Cardinality(batch) = Len(result'.rows)
             /\ IF cursor = 0 /\ saved_state # <<>>
                THEN /\ \A p \in again :
                           CheckpointRow(Value, p, saved_state.last_value)
                     /\ \A p \in 1..Len(DbRows(Value)) :
                           (/\ CheckpointRow(Value, p, saved_state.last_value)
                            /\ PassesLowerBound(Value, p))
                             => /\ p \in batch
                                /\ \A c \in DOMAIN DbRows(Value)[p] :
                                      result'.rows[1][c] = PyInt(DbRows(Value)[p][c])
                     /\ reported # <<>> => Cardinality(again) = 1
                ELSE again = {}]_vars

\* a batch of two rows from a cursor declared again after a failure: the
\* row of the checkpoint and a row not returned before
C27_Witness ==
  /\ LastReturned
  /\ call.attempts > 1
  /\ Declarations(att.events) # {}
  /\ Len(reported) >= 2
  /\ Len(result.rows) = 2
  /\ persisted = <<>>
  /\ UniqueKey(tables[att.index + 1], current_keys)
  /\ Cardinality(EmittedOf(att.index)) = 3

\* the values of a checkpoint, in the order of the key
ValuesOf(last_value) == [k \in 1..Len(last_value) |-> last_value[k][2].v]

\* C28: the table index never decreases and changes only by one, exactly
\* when an empty batch is returned; a checkpoint is reported for the table
\* the index stands at, and its values are, in the order of the key, at
\* least those of the checkpoint of the table the engine held before.
C28_ProgressNeverBackwards ==
  [][/\ index' \in {index, index + 1}
     /\ index' = index + 1 <=> ReturnsEmpty
     /\ \A i \in StateEvents(att'.events) :
           /\ att'.events[i].st.last_index = index
           /\ index' = index
           /\ saved_state # <<>> =>
                 /\ saved_state.last_index = index
                 /\ TupleGeq(ValuesOf(att'.events[i].st.last_value),
                             ValuesOf(saved_state.last_value))]_vars

\* a checkpoint of the second table, reported from a cursor declared again
\* after a failure, with a checkpoint of that table held before
C28_Witness ==
  /\ LastReturned
  /\ call.attempts > 1
  /\ StateEvents(att.events) # {}
  /\ Declarations(att.events) # {}
  /\ index = 1
  /\ persisted = <<>>
  /\ \E e \in emitted : e[1] = 0
  /\ Cardinality(EmittedOf(1)) = 3

\* C29: with tables of finitely many rows, a batch size of at least 1 and
\* finitely many failed attempts, a host that keeps calling read() receives
\* the done result in the end, and from then on nothing else.
C29_EventuallyDone == <>[](Done /\ ~in_call /\ result.kind = "done")

\* done has been returned after both tables were scanned and a call had
\* been retried
C29_Witness ==
  /\ result.kind = "done"
  /\ LastReturned
  /\ Len(tables) = 2
  /\ index = 2
  /\ faulty > 0
  /\ \E e \in emitted : e[1] = 0
  /\ \E e \in emitted : e[1] = 1

\* C30: whenever the statement holds the incremental predicate and a
\* maximum is known, 0 included, the predicate is wrapped with the upper
\* bound as (column >= 'lower' AND column <= maximum); without a known
\* maximum it has no upper bound.
C30_UpperBoundWheneverKnown ==
  qout # "" =>
    LET where == WhereOf(qout)
        inc == qin.inckey \o " >= '" \o Format(qin.incval) \o "'"
        wrapped == "(" \o inc \o " AND " \o qin.inckey \o " <= "
                       \o Format(qin.max_value) \o ")"
    IN (qin.inckey # "" /\ Contains(where, inc)) =>
         IF qin.max_value # PyNone
         THEN Contains(where, wrapped)
         ELSE ~Contains(where, qin.inckey \o " <= ")

====
